---- MODULE Spec2Model ----
(***************************************************************************)
(* A model of the ARM decoder (arm_decoder.py) and executor                *)
(* (arm_executor.py), driven the way main_simulator.run_simulation drives  *)
(* them: every 32-bit word of the stream is decoded into an instruction    *)
(* record, and the records are executed one after the other on one ARMCpu. *)
(*                                                                         *)
(* Python integers are unbounded.  They are modelled as two's complement   *)
(* bit vectors of PyIntWidth bits (index 0 is the least significant bit),  *)
(* wide enough for every intermediate value the code computes: a product   *)
(* of two 32-bit registers (< 2^64), a register shifted left by 31         *)
(* (< 2^63), and the negative difference of two such values.               *)
(***************************************************************************)
EXTENDS Integers, Sequences, FiniteSets, TLC

\* Width of the bit vectors that stand for Python's unbounded integers.
PyIntWidth == 66

\* len(self.memory): the ARMCpu constructor's bytearray(1024).
MemorySize == 1024

\* How many instructions of the stream the driver loop executes.
MaxSteps == 2

Idx == 0 .. (PyIntWidth - 1)

------------------------------------------------------------------------------
(* Python integer arithmetic on bit vectors *)

\* The bit vector of a small natural number (n < 2^31).
FromNat(n) == [i \in Idx |-> IF i < 31 THEN (n \div (2 ^ i)) % 2 ELSE 0]

Zero == FromNat(0)

RECURSIVE SumBits(_, _, _)
SumBits(b, lo, n) == IF n = 0 THEN 0 ELSE b[lo] + 2 * SumBits(b, lo + 1, n - 1)

\* The natural number of a bit vector that is known to be below 2^31.
ToNat(b) == SumBits(b, 0, 31)

\* The literals 0xFFFFFFFF and 0x80000000.
HexFFFFFFFF == [i \in Idx |-> IF i < 32 THEN 1 ELSE 0]
Hex80000000 == [i \in Idx |-> IF i = 31 THEN 1 ELSE 0]

\* a << k
Shl(a, k) == [i \in Idx |-> IF i >= k THEN a[i - k] ELSE 0]

\* a >> k (Python's: arithmetic, the sign bit is replicated)
Shr(a, k) == [i \in Idx |-> IF i + k < PyIntWidth THEN a[i + k] ELSE a[PyIntWidth - 1]]

\* a & b, a | b
BitAnd(a, b) == [i \in Idx |-> a[i] * b[i]]
BitOr(a, b) == [i \in Idx |-> IF a[i] + b[i] > 0 THEN 1 ELSE 0]
BitNot(a) == [i \in Idx |-> 1 - a[i]]

\* The carries into bit positions i, i+1, ... of a + b, c being the carry into i.
RECURSIVE CarrySeq(_, _, _, _)
CarrySeq(a, b, i, c) ==
    IF i = PyIntWidth THEN <<>>
    ELSE <<c>> \o CarrySeq(a, b, i + 1, (a[i] + b[i] + c) \div 2)

AddCarry(a, b, c) ==
    LET cs == CarrySeq(a, b, 0, c)
    IN  [i \in Idx |-> (a[i] + b[i] + cs[i + 1]) % 2]

\* a + b, a - b
Add(a, b) == AddCarry(a, b, 0)
Sub(a, b) == AddCarry(a, BitNot(b), 1)

\* a * b for b >= 0: shift and add over the bits of b.
RECURSIVE MulFrom(_, _, _)
MulFrom(a, b, i) ==
    IF i = PyIntWidth THEN Zero
    ELSE IF b[i] = 1 THEN Add(Shl(a, i), MulFrom(a, b, i + 1))
    ELSE MulFrom(a, b, i + 1)

Mul(a, b) == MulFrom(a, b, 0)

IsNegative(a) == a[PyIntWidth - 1] = 1

\* a >= b, a > b, a < b
Ge(a, b) == ~IsNegative(Sub(a, b))
Gt(a, b) == IsNegative(Sub(b, a))
Lt(a, b) == IsNegative(Sub(a, b))

\* (word >> shift) & mask, as a small number (mask < 2^31): bit i of the
\* result is bit shift + i of word where bit i of mask is set.
RECURSIVE FieldFrom(_, _, _, _)
FieldFrom(word, shift, mask, i) ==
    IF mask = 0 THEN 0
    ELSE (mask % 2) * word[IF shift + i < PyIntWidth THEN shift + i
                           ELSE PyIntWidth - 1]
         + 2 * FieldFrom(word, shift, mask \div 2, i + 1)

Field(word, shift, mask) == FieldFrom(word, shift, mask, 0)

------------------------------------------------------------------------------
(* struct.pack / struct.unpack *)

Byte(v, k) == SumBits(v, 8 * k, 8)

\* PackLE writing the four bytes most significant first.
PackLEMostFirst(v) == <<Byte(v, 3), Byte(v, 2), Byte(v, 1), Byte(v, 0)>>

\* struct.pack('<I', v): the four bytes of v, least significant first.
\* (v is in [0, 2^32) wherever the code packs: registers hold masked values.)
PackLE(v) == <<Byte(v, 0), Byte(v, 1), Byte(v, 2), Byte(v, 3)>>

\* struct.pack('>I', v): the four bytes of v, most significant first.
PackBE(v) == <<Byte(v, 3), Byte(v, 2), Byte(v, 1), Byte(v, 0)>>

\* The value of four bytes, bs[1] the least significant.
BytesValue(bs) ==
    [i \in Idx |-> IF i < 32 THEN (bs[(i \div 8) + 1] \div (2 ^ (i % 8))) % 2 ELSE 0]

\* struct.unpack('<I', bs)[0]
UnpackLE(bs) == BytesValue(bs)

\* UnpackBE reading the four bytes least significant first.
UnpackBELeastFirst(bs) == BytesValue(bs)

\* struct.unpack('>I', bs)[0]
UnpackBE(bs) == BytesValue(<<bs[4], bs[3], bs[2], bs[1]>>)

\* struct.unpack('<i', bs)[0]: the same 32 bits read as a signed number.
UnpackSignedLE(bs) ==
    LET u == BytesValue(bs)
    IN  [i \in Idx |-> IF i < 32 THEN u[i] ELSE u[31]]

------------------------------------------------------------------------------
(* arm_decoder.py: ARMInstruction *)

\* An operands dictionary with no key.
NoOperands == [k \in {} |-> 0]

\* 'key' in instruction.operands
Has(operands, key) == key \in DOMAIN operands

\* ARMInstruction.__init__: nothing is decoded yet, instruction_type is None.
NewInstruction(binary_word) ==
    [binary_word |-> binary_word, instruction_type |-> "None",
     condition_code |-> -1, set_flags |-> FALSE, operands |-> NoOperands]

\* RotateImmediate with the bits shifted out dropped: a shift, not a rotation.
RotateImmediateShiftOnly(imm8, rotate_imm) ==
    Shr(FromNat(imm8), 2 * rotate_imm)

\* The 8-bit immediate rotated right by 2 * rotate_imm.  In Python `&` binds
\* tighter than `|`: only the left-shifted half is masked.
RotateImmediate(imm8, rotate_imm) ==
    BitOr(Shr(FromNat(imm8), 2 * rotate_imm),
          BitAnd(Shl(FromNat(imm8), 32 - (2 * rotate_imm)), HexFFFFFFFF))

\* The opcode of a data processing instruction with an immediate operand.
OpcodeTypeImm(opcode) ==
    IF opcode = 4 THEN "ADD"
    ELSE IF opcode = 2 THEN "SUB"
    ELSE IF opcode = 13 THEN "MOV"
    ELSE IF opcode = 10 THEN "CMP"
    ELSE IF opcode = 0 THEN "AND"
    ELSE IF opcode = 12 THEN "ORR"
    ELSE "UNKNOWN_DATA_PROCESSING_IMM"

\* The opcode of a data processing instruction with a register operand.
OpcodeTypeReg(opcode) ==
    IF opcode = 4 THEN "ADD"
    ELSE IF opcode = 2 THEN "SUB"
    ELSE IF opcode = 13 THEN "MOV"
    ELSE IF opcode = 10 THEN "CMP"
    ELSE IF opcode = 0 THEN "AND"
    ELSE IF opcode = 12 THEN "ORR"
    ELSE "UNKNOWN_DATA_PROCESSING_REG"

\* ShiftType with the tests for LSR and ASR exchanged.
ShiftTypeSwapped(shift_type_bits) ==
    IF shift_type_bits = 0 THEN "LSL"
    ELSE IF shift_type_bits = 2 THEN "LSR"
    ELSE IF shift_type_bits = 1 THEN "ASR"
    ELSE IF shift_type_bits = 3 THEN "ROR"
    ELSE "None"

\* The standalone shift instruction of MOV Rd, Rm, <shift>; the if/elif chain
\* has no else, so a shift type none of its tests matched would leave
\* instruction_type as __init__ set it.
ShiftType(shift_type_bits) ==
    IF shift_type_bits = 0 THEN "LSL"
    ELSE IF shift_type_bits = 1 THEN "LSR"
    ELSE IF shift_type_bits = 2 THEN "ASR"
    ELSE IF shift_type_bits = 3 THEN "ROR"
    ELSE "None"

\* ConditionalType with the two condition codes exchanged.
ConditionalTypeSwapped(condition_code, instruction_type) ==
    IF condition_code = 0 /\ instruction_type = "SUB" THEN "SUBNE"
    ELSE IF condition_code = 1 /\ instruction_type = "ADD" THEN "ADDEQ"
    ELSE instruction_type

\* SUBNE and ADDEQ override the base instruction type.
ConditionalType(condition_code, instruction_type) ==
    IF condition_code = 1 /\ instruction_type = "SUB" THEN "SUBNE"
    ELSE IF condition_code = 0 /\ instruction_type = "ADD" THEN "ADDEQ"
    ELSE instruction_type

\* CMP always sets flags; every other instruction by its S bit (bit 20).
SetFlags(binary_word, instruction_type) ==
    IF instruction_type = "CMP" THEN TRUE ELSE Field(binary_word, 20, 1) = 1

\* Cond(4) 0000 00A S Rd Rs 1001 Rm
IsMultiply(binary_word) ==
    Field(binary_word, 24, 15) = 0 /\ Field(binary_word, 4, 15) = 9

DecodeMultiply(binary_word) ==
    [binary_word |-> binary_word,
     instruction_type |-> "MUL",
     condition_code |-> Field(binary_word, 28, 15),
     set_flags |-> (Field(binary_word, 20, 1) = 1),
     operands |-> [rd |-> Field(binary_word, 16, 15),
                   rm |-> Field(binary_word, 0, 15),
                   rs |-> Field(binary_word, 8, 15)]]

\* Cond(4) 00 1 Opcode S Rn Rd Rotate Imm8
DecodeDataProcessingImm(binary_word) ==
    LET condition_code == Field(binary_word, 28, 15)
        opcode == Field(binary_word, 21, 15)
        rn == Field(binary_word, 16, 15)
        rd == Field(binary_word, 12, 15)
        rotate_imm == Field(binary_word, 8, 15)
        imm8 == Field(binary_word, 0, 255)
        instruction_type == OpcodeTypeImm(opcode)
    IN  [binary_word |-> binary_word,
         instruction_type |-> ConditionalType(condition_code, instruction_type),
         condition_code |-> condition_code,
         set_flags |-> SetFlags(binary_word, instruction_type),
         operands |-> [rd |-> rd, rn |-> rn,
                       operand2 |-> RotateImmediate(imm8, rotate_imm)]]

\* Cond(4) 00 0 Opcode S Rn Rd Shift Rm
DecodeDataProcessingReg(binary_word) ==
    LET condition_code == Field(binary_word, 28, 15)
        S == Field(binary_word, 20, 1) = 1
        opcode == Field(binary_word, 21, 15)
        rn == Field(binary_word, 16, 15)
        rd == Field(binary_word, 12, 15)
        rm == Field(binary_word, 0, 15)
        shift_type_bits == Field(binary_word, 5, 3)
        shift_amount == Field(binary_word, 7, 31)
        rs == Field(binary_word, 8, 15)
        instruction_type == OpcodeTypeReg(opcode)
        Record(type, flags, operands) ==
            [binary_word |-> binary_word, instruction_type |-> type,
             condition_code |-> condition_code, set_flags |-> flags,
             operands |-> operands]
    IN  IF Field(binary_word, 4, 1) = 0
        THEN \* immediate shift amount
             IF opcode = 13 /\ shift_type_bits = 3 /\ rn = 0 /\ rm = rd
             THEN Record("ROR", S,
                         [rd |-> rd, rm |-> rm, shift_amount |-> shift_amount,
                          shift_type |-> shift_type_bits, rn |-> 0])
             ELSE IF rn = 0 /\ opcode = 13
             THEN Record(ShiftType(shift_type_bits), S,
                         [rd |-> rd, rm |-> rm, shift_amount |-> shift_amount,
                          shift_type |-> shift_type_bits, rn |-> 0])
             ELSE Record(ConditionalType(condition_code, instruction_type),
                         SetFlags(binary_word, instruction_type),
                         [rd |-> rd, rn |-> rn, rm |-> rm,
                          shift_amount |-> shift_amount,
                          shift_type |-> shift_type_bits])
        ELSE \* register-specified shift amount
             IF rn = 0 /\ opcode = 13
             THEN Record(ShiftType(shift_type_bits), S,
                         [rd |-> rd, rm |-> rm, rs |-> rs,
                          shift_type |-> shift_type_bits, rn |-> 0])
             ELSE Record(ConditionalType(condition_code, instruction_type),
                         SetFlags(binary_word, instruction_type),
                         [rd |-> rd, rn |-> rn, rm |-> rm, rs |-> rs,
                          shift_type |-> shift_type_bits])

\* Cond(4) 01 I P U B W L Rn Rd Offset
DecodeLoadStore(binary_word) ==
    [binary_word |-> binary_word,
     instruction_type |-> IF Field(binary_word, 20, 1) = 1 THEN "LDR" ELSE "STR",
     condition_code |-> Field(binary_word, 28, 15),
     set_flags |-> FALSE,
     operands |-> [rd |-> Field(binary_word, 12, 15),
                   rn |-> Field(binary_word, 16, 15),
                   offset |-> Field(binary_word, 0, 4095)]]

\* Cond(4) 101 L Offset
DecodeBranch(binary_word) ==
    [binary_word |-> binary_word,
     instruction_type |-> IF Field(binary_word, 24, 1) = 1 THEN "BL" ELSE "B",
     condition_code |-> Field(binary_word, 28, 15),
     set_flags |-> FALSE,
     operands |-> [offset |-> Field(binary_word, 0, 16777215)]]

\* DecodeUnknown without the final assignment of instruction_type.
DecodeUnknownUnset(binary_word) ==
    [NewInstruction(binary_word) EXCEPT
        !.condition_code = Field(binary_word, 28, 15)]

\* The word matched no class.
DecodeUnknown(binary_word) ==
    [NewInstruction(binary_word) EXCEPT
        !.instruction_type = "UNKNOWN",
        !.condition_code = Field(binary_word, 28, 15)]

\* ARMInstruction.decode: the first class that matches decides.
decode(binary_word) ==
    IF IsMultiply(binary_word) THEN DecodeMultiply(binary_word)
    ELSE IF Field(binary_word, 26, 3) = 0
    THEN IF Field(binary_word, 25, 1) = 1
         THEN DecodeDataProcessingImm(binary_word)
         ELSE DecodeDataProcessingReg(binary_word)
    ELSE IF Field(binary_word, 26, 3) = 1 THEN DecodeLoadStore(binary_word)
    ELSE IF Field(binary_word, 25, 7) = 5 THEN DecodeBranch(binary_word)
    ELSE DecodeUnknown(binary_word)

------------------------------------------------------------------------------
(* arm_executor.py: ARMCpu *)

\* An optional argument: None, or a value.
None == <<>>
Some(x) == <<x>>

\* ARMCpu._update_flags: N and Z from the 32-bit result; C and V only when given.
update_flags(cpsr, result, carry_out, overflow) ==
    LET result_32bit == BitAnd(result, HexFFFFFFFF)
    IN  [N |-> IF Field(result_32bit, 31, 1) = 1 THEN 1 ELSE 0,
         Z |-> IF result_32bit = Zero THEN 1 ELSE 0,
         C |-> IF carry_out # None THEN (IF carry_out[1] THEN 1 ELSE 0) ELSE cpsr.C,
         V |-> IF overflow # None THEN (IF overflow[1] THEN 1 ELSE 0) ELSE cpsr.V]

\* The barrel shifter of _get_operand2: rm_value shifted by actual_shift_amount.
ShiftedValue(rm_value, shift_type, actual_shift_amount) ==
    IF shift_type = 0 THEN Shl(rm_value, actual_shift_amount)
    ELSE IF shift_type = 1 THEN Shr(rm_value, actual_shift_amount)
    ELSE IF shift_type = 2
    THEN IF BitAnd(rm_value, Hex80000000) # Zero
         THEN LET signed_rm_value ==
                      UnpackSignedLE(PackLE(BitAnd(rm_value, HexFFFFFFFF)))
              IN  BitAnd(Shr(signed_rm_value, actual_shift_amount), HexFFFFFFFF)
         ELSE Shr(rm_value, actual_shift_amount)
    ELSE IF shift_type = 3
    THEN BitAnd(BitOr(Shr(rm_value, actual_shift_amount),
                      Shl(rm_value, 32 - actual_shift_amount)), HexFFFFFFFF)
    ELSE rm_value

\* The shift amount: the immediate, else register rs, else 0; its low 5 bits.
ActualShiftAmount(registers, operands) ==
    LET amount == IF Has(operands, "shift_amount") THEN FromNat(operands.shift_amount)
                  ELSE IF Has(operands, "rs") THEN registers[operands.rs]
                  ELSE Zero
    IN  Field(amount, 0, 31)

\* ARMCpu._get_operand2
get_operand2(registers, instruction) ==
    LET operands == instruction.operands
    IN  IF Has(operands, "operand2") THEN operands.operand2
        ELSE IF Has(operands, "rm")
        THEN LET rm_value == registers[operands.rm]
             IN  IF Has(operands, "shift_type")
                 THEN ShiftedValue(rm_value, operands.shift_type,
                                   ActualShiftAmount(registers, operands))
                 ELSE rm_value
        ELSE Zero

\* execute_conditionally with the two tests of Z exchanged.
execute_conditionally_swapped(cpsr, instruction) ==
    IF instruction.condition_code = 1 THEN cpsr.Z # 0
    ELSE IF instruction.condition_code = 0 THEN cpsr.Z # 1
    ELSE TRUE

\* The condition check: only EQ and NE are tested, against Z.
execute_conditionally(cpsr, instruction) ==
    IF instruction.condition_code = 1 THEN cpsr.Z # 1
    ELSE IF instruction.condition_code = 0 THEN cpsr.Z # 0
    ELSE TRUE

\* What a call of execute_instruction leaves: the cpu and what it printed.
Outcome(registers, cpsr, memory, report) ==
    [registers |-> registers, cpsr |-> cpsr, memory |-> memory, report |-> report]

\* (sign(Rn), sign(operand2), sign(result)): bit 31 of each.
Sign(v) == Field(v, 31, 1)

\* ExecMOV updating the flags whatever set_flags is.
ExecMOVAlwaysFlags(cpu, instruction) ==
    LET rd == instruction.operands.rd
        operand2 == get_operand2(cpu.registers, instruction)
    IN  Outcome([cpu.registers EXCEPT ![rd] = BitAnd(operand2, HexFFFFFFFF)],
                update_flags(cpu.cpsr, operand2, None, None),
                cpu.memory, "")

\* ExecMOV clearing C when it updates the flags.
ExecMOVClearsCarry(cpu, instruction) ==
    LET rd == instruction.operands.rd
        operand2 == get_operand2(cpu.registers, instruction)
    IN  Outcome([cpu.registers EXCEPT ![rd] = BitAnd(operand2, HexFFFFFFFF)],
                IF instruction.set_flags
                THEN update_flags(cpu.cpsr, operand2, Some(FALSE), None)
                ELSE cpu.cpsr,
                cpu.memory, "")

ExecMOV(cpu, instruction) ==
    LET rd == instruction.operands.rd
        operand2 == get_operand2(cpu.registers, instruction)
    IN  Outcome([cpu.registers EXCEPT ![rd] = BitAnd(operand2, HexFFFFFFFF)],
                IF instruction.set_flags
                THEN update_flags(cpu.cpsr, operand2, None, None) ELSE cpu.cpsr,
                cpu.memory, "")

\* memory[address:address+4]
MemorySlice(memory, address) ==
    <<memory[address], memory[address + 1], memory[address + 2], memory[address + 3]>>

\* memory[address:address+4] = bytes, on a bytearray: the slice stops at the
\* end of the array, and the bytes replace it whatever its length.
SliceAssign(memory, address, bytes) ==
    LET len == Cardinality(DOMAIN memory)
        start == IF address < len THEN address ELSE len
        stop == IF address + 4 < len THEN address + 4 ELSE len
    IN  [k \in 0 .. (start + Len(bytes) + (len - stop) - 1) |->
            IF k < start THEN memory[k]
            ELSE IF k < start + Len(bytes) THEN bytes[k - start + 1]
            ELSE memory[k - start - Len(bytes) + stop]]

\* AddressInBounds off by one: 0 <= address < len(self.memory) - 4
AddressInBoundsStrict(address) ==
    Ge(address, Zero) /\ Lt(address, FromNat(MemorySize - 4))

\* 0 <= address < len(self.memory) - 3
AddressInBounds(address) ==
    Ge(address, Zero) /\ Lt(address, FromNat(MemorySize - 3))

ExecLDR(cpu, instruction) ==
    LET rd == instruction.operands.rd
        rn == instruction.operands.rn
        offset == instruction.operands.offset
        address == Add(cpu.registers[rn], FromNat(offset))
    IN  IF AddressInBounds(address)
        THEN Outcome([cpu.registers EXCEPT
                         ![rd] = UnpackLE(MemorySlice(cpu.memory, ToNat(address)))],
                     cpu.cpsr, cpu.memory, "")
        ELSE Outcome(cpu.registers, cpu.cpsr, cpu.memory, "out of bounds")

ExecSTR(cpu, instruction) ==
    LET rd == instruction.operands.rd
        rn == instruction.operands.rn
        offset == instruction.operands.offset
        address == Add(cpu.registers[rn], FromNat(offset))
        value == cpu.registers[rd]
    IN  IF AddressInBounds(address)
        THEN Outcome(cpu.registers, cpu.cpsr,
                     SliceAssign(cpu.memory, ToNat(address), PackLE(value)), "")
        ELSE Outcome(cpu.registers, cpu.cpsr, cpu.memory, "out of bounds")

\* ExecADD storing the sum without the mask to 32 bits.
ExecADDUnmasked(cpu, instruction) ==
    LET rd == instruction.operands.rd
        rn == instruction.operands.rn
        operand2 == get_operand2(cpu.registers, instruction)
        val_rn == cpu.registers[rn]
        result == Add(val_rn, operand2)
        carry_out == Gt(result, HexFFFFFFFF)
        overflow == Sign(val_rn) = Sign(operand2) /\ Sign(val_rn) # Sign(result)
    IN  Outcome([cpu.registers EXCEPT ![rd] = result],
                IF instruction.set_flags
                THEN update_flags(cpu.cpsr, result, Some(carry_out), Some(overflow))
                ELSE cpu.cpsr,
                cpu.memory, "")

ExecADD(cpu, instruction) ==
    LET rd == instruction.operands.rd
        rn == instruction.operands.rn
        operand2 == get_operand2(cpu.registers, instruction)
        val_rn == cpu.registers[rn]
        result == Add(val_rn, operand2)
        carry_out == Gt(result, HexFFFFFFFF)
        overflow == Sign(val_rn) = Sign(operand2) /\ Sign(val_rn) # Sign(result)
    IN  Outcome([cpu.registers EXCEPT ![rd] = BitAnd(result, HexFFFFFFFF)],
                IF instruction.set_flags
                THEN update_flags(cpu.cpsr, result, Some(carry_out), Some(overflow))
                ELSE cpu.cpsr,
                cpu.memory, "")

ExecSUB(cpu, instruction) ==
    LET rd == instruction.operands.rd
        rn == instruction.operands.rn
        operand2 == get_operand2(cpu.registers, instruction)
        val_rn == cpu.registers[rn]
        result == Sub(val_rn, operand2)
        carry_out == Ge(val_rn, operand2)
        overflow == Sign(val_rn) # Sign(operand2) /\ Sign(val_rn) # Sign(result)
    IN  Outcome([cpu.registers EXCEPT ![rd] = BitAnd(result, HexFFFFFFFF)],
                IF instruction.set_flags
                THEN update_flags(cpu.cpsr, result, Some(carry_out), Some(overflow))
                ELSE cpu.cpsr,
                cpu.memory, "")

ExecMUL(cpu, instruction) ==
    LET rd == instruction.operands.rd
        rm == instruction.operands.rm
        rs == instruction.operands.rs
        result == Mul(cpu.registers[rm], cpu.registers[rs])
    IN  Outcome([cpu.registers EXCEPT ![rd] = BitAnd(result, HexFFFFFFFF)],
                IF instruction.set_flags
                THEN update_flags(cpu.cpsr, result, None, None) ELSE cpu.cpsr,
                cpu.memory, "")

ExecAND(cpu, instruction) ==
    LET rd == instruction.operands.rd
        rn == instruction.operands.rn
        operand2 == get_operand2(cpu.registers, instruction)
        result == BitAnd(cpu.registers[rn], operand2)
    IN  Outcome([cpu.registers EXCEPT ![rd] = BitAnd(result, HexFFFFFFFF)],
                IF instruction.set_flags
                THEN update_flags(cpu.cpsr, result, None, None) ELSE cpu.cpsr,
                cpu.memory, "")

ExecORR(cpu, instruction) ==
    LET rd == instruction.operands.rd
        rn == instruction.operands.rn
        operand2 == get_operand2(cpu.registers, instruction)
        result == BitOr(cpu.registers[rn], operand2)
    IN  Outcome([cpu.registers EXCEPT ![rd] = BitAnd(result, HexFFFFFFFF)],
                IF instruction.set_flags
                THEN update_flags(cpu.cpsr, result, None, None) ELSE cpu.cpsr,
                cpu.memory, "")

\* CMP: the arithmetic of SUB, no register written, flags always updated.
ExecCMP(cpu, instruction) ==
    LET rn == instruction.operands.rn
        operand2 == get_operand2(cpu.registers, instruction)
        val_rn == cpu.registers[rn]
        result == Sub(val_rn, operand2)
        carry_out == Ge(val_rn, operand2)
        overflow == Sign(val_rn) # Sign(operand2) /\ Sign(val_rn) # Sign(result)
    IN  Outcome(cpu.registers,
                update_flags(cpu.cpsr, result, Some(carry_out), Some(overflow)),
                cpu.memory, "")

ExecSUBNE(cpu, instruction) ==
    LET rd == instruction.operands.rd
        rn == instruction.operands.rn
        operand2 == get_operand2(cpu.registers, instruction)
        val_rn == cpu.registers[rn]
        result == Sub(val_rn, operand2)
        carry_out == Ge(val_rn, operand2)
        overflow == Sign(val_rn) # Sign(operand2) /\ Sign(val_rn) # Sign(result)
    IN  Outcome([cpu.registers EXCEPT ![rd] = BitAnd(result, HexFFFFFFFF)],
                IF instruction.set_flags
                THEN update_flags(cpu.cpsr, result, Some(carry_out), Some(overflow))
                ELSE cpu.cpsr,
                cpu.memory, "")

ExecADDEQ(cpu, instruction) ==
    LET rd == instruction.operands.rd
        rn == instruction.operands.rn
        operand2 == get_operand2(cpu.registers, instruction)
        val_rn == cpu.registers[rn]
        result == Add(val_rn, operand2)
        carry_out == Gt(result, HexFFFFFFFF)
        overflow == Sign(val_rn) = Sign(operand2) /\ Sign(val_rn) # Sign(result)
    IN  Outcome([cpu.registers EXCEPT ![rd] = BitAnd(result, HexFFFFFFFF)],
                IF instruction.set_flags
                THEN update_flags(cpu.cpsr, result, Some(carry_out), Some(overflow))
                ELSE cpu.cpsr,
                cpu.memory, "")

ExecLSL(cpu, instruction) ==
    LET rd == instruction.operands.rd
        shifted_value == get_operand2(cpu.registers, instruction)
    IN  Outcome([cpu.registers EXCEPT ![rd] = BitAnd(shifted_value, HexFFFFFFFF)],
                IF instruction.set_flags
                THEN update_flags(cpu.cpsr, shifted_value, None, None) ELSE cpu.cpsr,
                cpu.memory, "")

ExecLSR(cpu, instruction) ==
    LET rd == instruction.operands.rd
        shifted_value == get_operand2(cpu.registers, instruction)
    IN  Outcome([cpu.registers EXCEPT ![rd] = BitAnd(shifted_value, HexFFFFFFFF)],
                IF instruction.set_flags
                THEN update_flags(cpu.cpsr, shifted_value, None, None) ELSE cpu.cpsr,
                cpu.memory, "")

ExecASR(cpu, instruction) ==
    LET rd == instruction.operands.rd
        shifted_value == get_operand2(cpu.registers, instruction)
    IN  Outcome([cpu.registers EXCEPT ![rd] = BitAnd(shifted_value, HexFFFFFFFF)],
                IF instruction.set_flags
                THEN update_flags(cpu.cpsr, shifted_value, None, None) ELSE cpu.cpsr,
                cpu.memory, "")

ExecROR(cpu, instruction) ==
    LET rd == instruction.operands.rd
        shifted_value == get_operand2(cpu.registers, instruction)
    IN  Outcome([cpu.registers EXCEPT ![rd] = BitAnd(shifted_value, HexFFFFFFFF)],
                IF instruction.set_flags
                THEN update_flags(cpu.cpsr, shifted_value, None, None) ELSE cpu.cpsr,
                cpu.memory, "")

\* ExecBranch storing the branch offset in register 15, the program counter.
ExecBranchSetsPC(cpu, instruction) ==
    Outcome([cpu.registers EXCEPT ![15] = FromNat(instruction.operands.offset)],
            cpu.cpsr, cpu.memory, "branch")

\* ExecBranch saving a return address, register 15 + 4, in register 14.
ExecBranchLinks(cpu, instruction) ==
    Outcome([cpu.registers EXCEPT
                ![14] = BitAnd(Add(cpu.registers[15], FromNat(4)), HexFFFFFFFF)],
            cpu.cpsr, cpu.memory, "branch")

\* B and BL only print the offset.
ExecBranch(cpu, instruction) ==
    Outcome(cpu.registers, cpu.cpsr, cpu.memory, "branch")

\* Any other instruction type only prints that it is unknown.
ExecUnknown(cpu, instruction) ==
    Outcome(cpu.registers, cpu.cpsr, cpu.memory, "unknown")

\* A failed condition check only prints that the instruction is skipped.
ExecSkipped(cpu, instruction) ==
    Outcome(cpu.registers, cpu.cpsr, cpu.memory, "skipped")

\* ARMCpu.execute_instruction
execute_instruction(cpu, instruction) ==
    LET type == instruction.instruction_type
    IN  IF ~execute_conditionally(cpu.cpsr, instruction)
        THEN ExecSkipped(cpu, instruction)
        ELSE IF type = "MOV" THEN ExecMOV(cpu, instruction)
        ELSE IF type = "LDR" THEN ExecLDR(cpu, instruction)
        ELSE IF type = "STR" THEN ExecSTR(cpu, instruction)
        ELSE IF type = "ADD" THEN ExecADD(cpu, instruction)
        ELSE IF type = "SUB" THEN ExecSUB(cpu, instruction)
        ELSE IF type = "MUL" THEN ExecMUL(cpu, instruction)
        ELSE IF type = "AND" THEN ExecAND(cpu, instruction)
        ELSE IF type = "ORR" THEN ExecORR(cpu, instruction)
        ELSE IF type = "CMP" THEN ExecCMP(cpu, instruction)
        ELSE IF type = "SUBNE" THEN ExecSUBNE(cpu, instruction)
        ELSE IF type = "ADDEQ" THEN ExecADDEQ(cpu, instruction)
        ELSE IF type = "LSL" THEN ExecLSL(cpu, instruction)
        ELSE IF type = "LSR" THEN ExecLSR(cpu, instruction)
        ELSE IF type = "ASR" THEN ExecASR(cpu, instruction)
        ELSE IF type = "ROR" THEN ExecROR(cpu, instruction)
        ELSE IF type = "B" \/ type = "BL" THEN ExecBranch(cpu, instruction)
        ELSE ExecUnknown(cpu, instruction)

------------------------------------------------------------------------------
(* The instruction stream and the initial registers *)

HexDigits ==
    [c \in {"0", "1", "2", "3", "4", "5", "6", "7", "8", "9",
            "A", "B", "C", "D", "E", "F"} |->
        CASE c = "0" -> 0 [] c = "1" -> 1 [] c = "2" -> 2 [] c = "3" -> 3
          [] c = "4" -> 4 [] c = "5" -> 5 [] c = "6" -> 6 [] c = "7" -> 7
          [] c = "8" -> 8 [] c = "9" -> 9 [] c = "A" -> 10 [] c = "B" -> 11
          [] c = "C" -> 12 [] c = "D" -> 13 [] c = "E" -> 14 [] c = "F" -> 15]

\* hex_to_bin_word: int(hex_str, 16), hex_str given as its characters.
RECURSIVE hex_to_bin_word(_)
hex_to_bin_word(hex_str) ==
    IF hex_str = <<>> THEN Zero
    ELSE BitOr(Shl(hex_to_bin_word(SubSeq(hex_str, 1, Len(hex_str) - 1)), 4),
               FromNat(HexDigits[hex_str[Len(hex_str)]]))

\* The 15 words generate_test_binary writes.
TestBinaryHex ==
    { <<"E", "3", "A", "0", "0", "0", "1", "0">>,   \* MOV R0, #16
      <<"E", "5", "9", "0", "1", "1", "0", "0">>,   \* LDR R1, [R0, #0x100]
      <<"E", "5", "8", "1", "2", "0", "0", "0">>,   \* STR R2, [R1, #0]
      <<"E", "0", "8", "1", "3", "0", "0", "2">>,   \* ADD R3, R1, R2
      <<"E", "0", "4", "2", "4", "0", "0", "3">>,   \* SUB R4, R2, R3
      <<"E", "0", "0", "5", "0", "1", "9", "4">>,   \* MUL R5, R1, R4
      <<"E", "1", "5", "0", "0", "0", "0", "5">>,   \* CMP R0, R5
      <<"E", "0", "0", "0", "6", "0", "0", "5">>,   \* AND R6, R0, R5
      <<"E", "1", "8", "0", "7", "0", "0", "5">>,   \* ORR R7, R0, R5
      <<"1", "0", "4", "0", "0", "0", "0", "5">>,   \* SUBNE R0, R0, R5
      <<"0", "0", "8", "7", "6", "0", "0", "8">>,   \* ADDEQ R6, R7, R8
      <<"E", "1", "A", "0", "1", "1", "0", "0">>,   \* MOV R1, R0, LSL #2
      <<"E", "1", "A", "0", "2", "1", "2", "0">>,   \* MOV R2, R0, LSR #2
      <<"E", "1", "A", "1", "4", "2", "6", "0">>,   \* MOV R4, R0, ASR #4 (Rn = 1)
      <<"E", "1", "A", "0", "0", "3", "E", "0">> }  \* MOV R0, R0, ROR #7

\* Further words of a stream: the remaining instruction types, S bits,
\* condition codes, register 15 as destination, and the ends of memory.
MoreHex ==
    { <<"E", "3", "A", "0", "F", "0", "1", "0">>,     \* MOV R15, #16
      <<"E", "3", "B", "0", "9", "0", "0", "0">>,     \* MOVS R9, #0
      <<"E", "3", "A", "0", "1", "1", "0", "2">>,     \* MOV R1, #0x80000000
      <<"E", "0", "9", "1", "2", "0", "8", "1">>,     \* ADDS R2, R1, R1, LSL #1
      <<"E", "0", "5", "1", "2", "0", "8", "1">>,     \* SUBS R2, R1, R1, LSL #1
      <<"E", "5", "9", "9", "1", "3", "F", "C">>,     \* LDR R1, [R9, #0x3FC]
      <<"E", "5", "9", "9", "1", "3", "F", "D">>,     \* LDR R1, [R9, #0x3FD]
      <<"E", "5", "8", "9", "2", "3", "F", "C">>,     \* STR R2, [R9, #0x3FC]
      <<"E", "5", "8", "9", "2", "3", "F", "D">>,     \* STR R2, [R9, #0x3FD]
      <<"A", "3", "A", "0", "0", "0", "1", "0">>,     \* MOVGE R0, #16
      <<"E", "A", "0", "0", "0", "0", "0", "2">>,     \* B
      <<"E", "B", "0", "0", "0", "0", "0", "2">>,     \* BL
      <<"E", "8", "0", "0", "0", "0", "0", "0">>,     \* no class
      <<"E", "0", "2", "0", "0", "0", "0", "0">>,     \* EOR (register)
      <<"E", "2", "2", "0", "0", "0", "0", "0">>,     \* EOR (immediate)
      <<"E", "0", "1", "1", "0", "0", "0", "2">>,     \* ANDS R0, R1, R2
      <<"E", "1", "9", "1", "0", "0", "0", "2">>,     \* ORRS R0, R1, R2
      <<"E", "0", "1", "3", "0", "1", "9", "2">>,     \* MULS R3, R2, R1
      <<"E", "1", "B", "0", "1", "1", "0", "0">>,     \* MOVS R1, R0, LSL #2
      <<"E", "1", "B", "0", "2", "1", "2", "0">>,     \* MOVS R2, R0, LSR #2
      <<"E", "1", "B", "0", "4", "2", "4", "1">>,     \* MOVS R4, R1, ASR #4
      <<"E", "1", "B", "0", "0", "3", "E", "0">>,     \* MOVS R0, R0, ROR #7
      <<"E", "1", "A", "0", "1", "3", "1", "0">>,     \* MOV R1, R0, LSL R3
      <<"0", "3", "A", "0", "0", "0", "0", "1">>,     \* MOVEQ R0, #1
      <<"E", "2", "5", "2", "2", "0", "0", "1">>,     \* SUBS R2, R2, #1
      <<"E", "2", "9", "2", "2", "0", "0", "1">>,     \* ADDS R2, R2, #1
      <<"1", "3", "B", "0", "1", "1", "0", "2">> }    \* MOVSNE R1, #0x80000000

\* The words a stream is made of.
StreamWords == {hex_to_bin_word(h) : h \in TestBinaryHex \cup MoreHex}

Registers == 0 .. 15

\* ARMCpu.__init__: 16 registers of 0.
ZeroRegisters == [r \in Registers |-> Zero]

\* run_simulation's registers "for testing purposes".
SimulationRegisters ==
    [ZeroRegisters EXCEPT
        ![0] = FromNat(16), ![1] = FromNat(32), ![2] = FromNat(5),
        ![3] = FromNat(2), ![4] = FromNat(10), ![5] = FromNat(3),
        ![7] = FromNat(15), ![8] = FromNat(15)]

\* Registers at the ends of the 32-bit range: 0x80000000, 0xFFFFFFFF,
\* 0x7FFFFFFF, 1 and a shift amount above 31.
EdgeRegisters ==
    [ZeroRegisters EXCEPT
        ![1] = Hex80000000, ![2] = HexFFFFFFFF,
        ![3] = BitAnd(BitNot(Hex80000000), HexFFFFFFFF),
        ![4] = FromNat(1), ![5] = FromNat(33)]

InitialRegisters == {ZeroRegisters, SimulationRegisters, EdgeRegisters}

------------------------------------------------------------------------------
(* The simulation *)

VARIABLES registers, cpsr, memory, instruction, report, pc, steps,
          binary_data, instructions, position

vars == <<registers, cpsr, memory, instruction, report, pc, steps,
          binary_data, instructions, position>>

\* The cpu of the current state.
Cpu == [registers |-> registers, cpsr |-> cpsr, memory |-> memory]

\* ARMCpu.__init__, then the registers the driver sets.
Init ==
    /\ registers \in InitialRegisters
    /\ cpsr = [N |-> 0, Z |-> 0, C |-> 0, V |-> 0]
    /\ memory = [a \in 0 .. (MemorySize - 1) |-> 0]
    /\ instruction = NewInstruction(Zero)
    /\ report = ""
    /\ pc = "decode"
    /\ steps = 0
    /\ binary_data = <<>>
    /\ instructions = <<>>
    /\ position = 0

\* decode_instructions: the next word of the stream, one of words, is decoded.
Decode(words) ==
    /\ pc = "decode"
    /\ steps < MaxSteps
    /\ \E binary_word \in words : instruction' = decode(binary_word)
    /\ pc' = "execute"
    /\ UNCHANGED <<registers, cpsr, memory, report, steps>>
    /\ UNCHANGED <<binary_data, instructions, position>>

\* run_simulation's loop body: cpu.execute_instruction(instruction).
Execute ==
    /\ pc = "execute"
    /\ LET outcome == execute_instruction(Cpu, instruction)
       IN  /\ registers' = outcome.registers
           /\ cpsr' = outcome.cpsr
           /\ memory' = outcome.memory
           /\ report' = outcome.report
    /\ pc' = "decode"
    /\ steps' = steps + 1
    /\ UNCHANGED <<instruction, binary_data, instructions, position>>

Next == Decode(StreamWords) \/ Execute

Spec == Init /\ [][Next]_vars

------------------------------------------------------------------------------
(* The decoder alone, on words built from their fields *)

\* Cond(4) | type and opcode bits 27-20 | Rn | Rd | Operand2 / Rm / Offset
EncodeWord(cond, bits27_20, rn, rd, bits11_0) ==
    [i \in Idx |->
        IF i < 12 THEN (bits11_0 \div (2 ^ i)) % 2
        ELSE IF i < 16 THEN (rd \div (2 ^ (i - 12))) % 2
        ELSE IF i < 20 THEN (rn \div (2 ^ (i - 16))) % 2
        ELSE IF i < 28 THEN (bits27_20 \div (2 ^ (i - 20))) % 2
        ELSE IF i < 32 THEN (cond \div (2 ^ (i - 28))) % 2
        ELSE 0]

\* Operand fields: no shift, the multiply pattern, every shift type with an
\* immediate and with a register amount, Rm = Rd and Rm # Rd.
OperandFields ==
    {0, 2, 18, 129, 146, 162, 578, 609, 784, 816, 848, 992, 994, 1010, 4095}

\* Every class and opcode (all of bits 27-20), under EQ, NE and AL.
ClassWords ==
    { EncodeWord(cond, bits27_20, rn, rd, bits11_0) :
        cond \in {0, 1, 14}, bits27_20 \in 0 .. 255,
        rn \in {0, 1}, rd \in {2}, bits11_0 \in OperandFields }

\* Every rotation of every 8-bit immediate: MOV and ADDS, immediate form.
ImmediateWords ==
    { EncodeWord(14, bits27_20, 1, 2, bits11_0) :
        bits27_20 \in {58, 41}, bits11_0 \in 0 .. 4095 }

DecoderWords == ClassWords \cup ImmediateWords \cup StreamWords

InitDecoder == Init /\ registers = ZeroRegisters

NextDecoder == Decode(DecoderWords)

\* One word is decoded; nothing is executed.
SpecDecoder == InitDecoder /\ [][NextDecoder]_vars

------------------------------------------------------------------------------
(* The arithmetic instructions on operands at the ends of the range *)

\* Words of a stream: moves, additions and comparisons, with and without
\* the S bit, with immediate, register and left-shifted register operands.
ArithmeticHex ==
    { <<"E", "3", "A", "0", "0", "0", "1", "0">>, \* MOV R0, #16
      <<"E", "3", "B", "0", "9", "0", "0", "0">>, \* MOVS R9, #0
      <<"E", "3", "B", "0", "1", "1", "0", "2">>, \* MOVS R1, #0x80000000
      <<"E", "1", "A", "1", "4", "2", "6", "0">>, \* MOV R4, R0, ASR #4 (Rn = 1)
      <<"E", "1", "B", "1", "2", "0", "8", "1">>, \* MOVS R2, R1, LSL #1 (Rn = 1)
      <<"E", "2", "9", "3", "6", "0", "0", "1">>, \* ADDS R6, R3, #1
      <<"E", "0", "9", "2", "2", "0", "0", "2">>, \* ADDS R2, R2, R2
      <<"E", "0", "9", "1", "2", "0", "8", "1">>, \* ADDS R2, R1, R1, LSL #1
      <<"E", "0", "8", "1", "3", "0", "0", "2">>, \* ADD R3, R1, R2
      <<"0", "0", "8", "7", "6", "0", "0", "8">>, \* ADDEQ R6, R7, R8
      <<"0", "0", "9", "1", "6", "0", "0", "1">>, \* ADDEQS R6, R1, R1
      <<"E", "3", "5", "0", "0", "0", "0", "1">>, \* CMP R0, #1
      <<"E", "1", "5", "0", "0", "0", "0", "5">>, \* CMP R0, R5
      <<"E", "1", "5", "1", "0", "0", "0", "2">>, \* CMP R1, R2
      <<"E", "1", "5", "3", "0", "0", "0", "1">>, \* CMP R3, R1
      <<"E", "1", "5", "1", "0", "0", "0", "3">>, \* CMP R1, R3
      <<"E", "1", "5", "1", "0", "0", "8", "1">>, \* CMP R1, R1, LSL #1
      <<"E", "0", "5", "1", "2", "0", "8", "1">>, \* SUBS R2, R1, R1, LSL #1
      <<"E", "2", "5", "2", "2", "0", "0", "1">> }\* SUBS R2, R2, #1

ArithmeticWords == {hex_to_bin_word(h) : h \in ArithmeticHex}

NextArithmetic == Decode(ArithmeticWords) \/ Execute

SpecArithmetic == Init /\ [][NextArithmetic]_vars

------------------------------------------------------------------------------
(* decode_instructions on a byte stream *)

\* The most words a stream holds.
MaxWords == 2

\* The words a file is written from: a move, a load, a word of no class and
\* a word whose four bytes differ from their reverse in every position.
FileWords ==
    { hex_to_bin_word(h) :
        h \in { <<"E", "3", "A", "0", "0", "0", "1", "0">>,
                <<"E", "5", "9", "0", "1", "1", "0", "0">>,
                <<"E", "8", "0", "0", "0", "0", "0", "0">>,
                <<"1", "0", "4", "0", "0", "0", "0", "5">> } }

\* generate_test_binary: each word of the sequence written big-endian.
RECURSIVE WriteWords(_)
WriteWords(words) ==
    IF words = <<>> THEN <<>>
    ELSE PackBE(Head(words)) \o WriteWords(Tail(words))

\* The files: up to MaxWords words, then 0 to 3 bytes of a further word.
ByteStreams ==
    { WriteWords(words) \o SubSeq(PackBE(last), 1, trailing) :
        words \in UNION { [1 .. n -> FileWords] : n \in 0 .. MaxWords },
        last \in {hex_to_bin_word(<<"E", "5", "8", "1", "2", "0", "0", "0">>)},
        trailing \in 0 .. 3 }

\* binary_data[i:i+4], i counted from 0: the slice stops at the end of the data.
Slice(data, i) ==
    SubSeq(data, i + 1, IF i + 4 < Len(data) THEN i + 4 ELSE Len(data))

\* binary_data as read from the file; nothing is decoded yet.
InitStream ==
    /\ registers \in InitialRegisters
    /\ cpsr = [N |-> 0, Z |-> 0, C |-> 0, V |-> 0]
    /\ memory = [a \in 0 .. (MemorySize - 1) |-> 0]
    /\ instruction = NewInstruction(Zero)
    /\ report = ""
    /\ pc = "decode"
    /\ steps = 0
    /\ binary_data \in ByteStreams
    /\ instructions = <<>>
    /\ position = 0

\* One pass of the loop of decode_instructions: for i in range(0, len, 4).
DecodeWordBytes ==
    /\ pc = "decode"
    /\ position < Len(binary_data)
    /\ LET word_bytes == Slice(binary_data, position)
       IN  IF Len(word_bytes) = 4
           THEN /\ instruction' = decode(UnpackBE(word_bytes))
                /\ instructions' = Append(instructions, instruction')
           ELSE UNCHANGED <<instruction, instructions>>
    /\ position' = position + 4
    /\ UNCHANGED <<registers, cpsr, memory, report, pc, steps, binary_data>>

\* The range is exhausted: return instructions.
ReturnInstructions ==
    /\ pc = "decode"
    /\ position >= Len(binary_data)
    /\ pc' = "decoded"
    /\ UNCHANGED <<registers, cpsr, memory, instruction, report, steps,
                   binary_data, instructions, position>>

NextStream == DecodeWordBytes \/ ReturnInstructions

SpecStream == InitStream /\ [][NextStream]_vars

\* The 32-bit value of four bytes, the first the most significant.
BigEndianValue(b) ==
    BitOr(BitOr(Shl(FromNat(b[1]), 24), Shl(FromNat(b[2]), 16)),
          BitOr(Shl(FromNat(b[3]), 8), FromNat(b[4])))

\* C11: when decode_instructions returns, a stream of n bytes has given
\* exactly floor(n / 4) records, the record of index k (from 0) is the
\* decoding of the big-endian value of bytes 4k .. 4k+3, and the n mod 4
\* trailing bytes have given none.
C11_WordsOfStream ==
    pc = "decoded" =>
        /\ Len(instructions) = Len(binary_data) \div 4
        /\ \A k \in 0 .. (Len(instructions) - 1) :
              LET word == BigEndianValue(SubSeq(binary_data, 4 * k + 1, 4 * k + 4))
              IN  /\ instructions[k + 1].binary_word = word
                  /\ instructions[k + 1] = decode(word)

\* A stream of 11 bytes has given two records, the move then the load.
C11_Witness ==
    /\ pc = "decoded"
    /\ Len(binary_data) = 11
    /\ Len(instructions) = 2
    /\ instructions[1].instruction_type = "MOV"
    /\ instructions[2].instruction_type = "LDR"
    /\ instructions[2].operands.offset = 256

------------------------------------------------------------------------------
(* Properties of the decoder *)

\* The instruction kinds of the specification's data model.
InstructionTypes ==
    {"MOV", "ADD", "SUB", "ADDEQ", "SUBNE", "CMP", "AND", "ORR", "MUL", "LDR",
     "STR", "B", "BL", "LSL", "LSR", "ASR", "ROR", "UNKNOWN",
     "UNKNOWN_DATA_PROCESSING_IMM", "UNKNOWN_DATA_PROCESSING_REG"}

\* The decoded word and the fields the properties read from it.
Word == instruction.binary_word
WordCond == Field(Word, 28, 15)
WordOpcode == Field(Word, 21, 15)
WordIsMultiply == Field(Word, 24, 15) = 0 /\ Field(Word, 4, 15) = 9
WordIsDataProcessing == Field(Word, 26, 3) = 0 /\ ~WordIsMultiply

\* A value in [0, 2^32).
Is32Bit(v) == \A i \in 32 .. (PyIntWidth - 1) : v[i] = 0

\* C1: every decoded word has one of the 20 enumerated kinds, never the unset
\* kind the constructor leaves.
C1_DecodeTotal ==
    pc = "execute" => instruction.instruction_type \in InstructionTypes

\* A word of no class has been decoded, to the fallback kind.
C1_Witness ==
    /\ pc = "execute"
    /\ instruction.instruction_type = "UNKNOWN"
    /\ Field(Word, 25, 7) = 4

\* The 32-bit rotate right of v by n: bit i of the result is bit i + n of v,
\* the positions counted modulo 32.
RotateRight32(v, n) == [i \in Idx |-> IF i < 32 THEN v[(i + n) % 32] ELSE 0]

\* C8: in the immediate form of a data processing word, operand2 is the
\* 8-bit immediate rotated right by twice the rotate field, as a 32-bit
\* rotation; with a rotate field of 0 it is the immediate itself.
C8_RotateImmediate ==
    (pc = "execute" /\ Field(Word, 26, 3) = 0 /\ Field(Word, 25, 1) = 1) =>
        LET imm8 == Field(Word, 0, 255)
            rotate == Field(Word, 8, 15)
        IN  /\ Has(instruction.operands, "operand2")
            /\ instruction.operands.operand2
                   = RotateRight32(FromNat(imm8), 2 * rotate)
            /\ Is32Bit(instruction.operands.operand2)
            /\ rotate = 0 => instruction.operands.operand2 = FromNat(imm8)

\* 0xFF rotated right by 2: the two bits rotated out re-enter at the top.
C8_Witness ==
    /\ pc = "execute"
    /\ Field(Word, 25, 7) = 1
    /\ Field(Word, 0, 4095) = 511
    /\ Field(instruction.operands.operand2, 30, 3) = 3
    /\ Field(instruction.operands.operand2, 0, 255) = 63

\* C9: a register-operand MOV with rn = 0 is decoded as the shift its shift
\* type names, never as MOV, with rn recorded as 0, whether the shift amount
\* is immediate (bit 4 = 0) or in register rs (bit 4 = 1).
C9_ShiftAlias ==
    (/\ pc = "execute"
     /\ WordIsDataProcessing
     /\ Field(Word, 25, 1) = 0
     /\ WordOpcode = 13
     /\ Field(Word, 16, 15) = 0) =>
        LET operands == instruction.operands
        IN  /\ instruction.instruction_type
                   = <<"LSL", "LSR", "ASR", "ROR">>[Field(Word, 5, 3) + 1]
            /\ instruction.instruction_type # "MOV"
            /\ Has(operands, "rn") /\ operands.rn = 0
            /\ Has(operands, "shift_type") /\ operands.shift_type = Field(Word, 5, 3)
            /\ Field(Word, 4, 1) = 0 =>
                   /\ Has(operands, "shift_amount") /\ ~Has(operands, "rs")
                   /\ operands.shift_amount = Field(Word, 7, 31)
            /\ Field(Word, 4, 1) = 1 =>
                   /\ Has(operands, "rs") /\ ~Has(operands, "shift_amount")
                   /\ operands.rs = Field(Word, 8, 15)

\* MOV Rd, Rm, ASR Rs has been decoded as ASR.
C9_Witness ==
    /\ pc = "execute"
    /\ WordOpcode = 13
    /\ Field(Word, 4, 1) = 1
    /\ instruction.instruction_type = "ASR"
    /\ Has(instruction.operands, "rs")

\* The word with its condition field replaced by cond.
WithCondition(word, cond) ==
    [i \in Idx |-> IF i >= 28 /\ i < 32 THEN (cond \div (2 ^ (i - 28))) % 2
                   ELSE word[i]]

\* C10: the kind is SUBNE exactly for a data processing SUB under NE, ADDEQ
\* exactly for a data processing ADD under EQ; no record is SUB under NE or
\* ADD under EQ; the condition code changes no other kind.
C10_ConditionRenaming ==
    pc = "execute" =>
        LET type == instruction.instruction_type
        IN  /\ instruction.condition_code = WordCond
            /\ type = "SUBNE" <=>
                   (WordIsDataProcessing /\ WordOpcode = 2 /\ WordCond = 1)
            /\ type = "ADDEQ" <=>
                   (WordIsDataProcessing /\ WordOpcode = 4 /\ WordCond = 0)
            /\ ~(type = "SUB" /\ instruction.condition_code = 1)
            /\ ~(type = "ADD" /\ instruction.condition_code = 0)
            /\ \A cond \in 0 .. 15 :
                   LET other == decode(WithCondition(Word, cond)).instruction_type
                   IN  IF type \in {"SUB", "SUBNE"}
                       THEN other = IF cond = 1 THEN "SUBNE" ELSE "SUB"
                       ELSE IF type \in {"ADD", "ADDEQ"}
                       THEN other = IF cond = 0 THEN "ADDEQ" ELSE "ADD"
                       ELSE other = type

\* The test binary's SUBNE R0, R0, R5 has been decoded.
C10_Witness ==
    /\ pc = "execute"
    /\ Word = hex_to_bin_word(<<"1", "0", "4", "0", "0", "0", "0", "5">>)
    /\ instruction.instruction_type = "SUBNE"
    /\ instruction.condition_code = 1

------------------------------------------------------------------------------
(* Properties of the executor *)

\* The condition gate of the instruction about to execute fails: EQ with
\* Z = 0, or NE with Z = 1.
GateFails ==
    \/ instruction.condition_code = 0 /\ cpsr.Z = 0
    \/ instruction.condition_code = 1 /\ cpsr.Z = 1

\* An instruction has just been executed (or skipped).
Executed == pc = "decode" /\ steps > 0

\* The kinds whose execution writes register rd.
RegisterWriters ==
    {"MOV", "ADD", "SUB", "ADDEQ", "SUBNE", "MUL", "AND", "ORR", "LDR",
     "LSL", "LSR", "ASR", "ROR"}

\* C2, as claimed: register 15 keeps its initial value (0 in every initial
\* register file) whatever is executed.
C2_Register15NeverWritten == registers[15] = Zero

\* C2, amended: a step changes register 15 only by executing, with the
\* condition gate passed, a register-writing kind whose rd is 15; B, BL, STR,
\* CMP, the UNKNOWN kinds, skipped instructions and every instruction with
\* another rd leave it unchanged.
C2_Register15OnlyAsRd ==
    [][registers'[15] # registers[15] =>
          /\ pc = "execute"
          /\ ~GateFails
          /\ instruction.instruction_type \in RegisterWriters
          /\ instruction.operands.rd = 15]_vars

\* MOV R15, #16 has been executed: register 15 holds 16.
C2_Witness ==
    /\ Executed
    /\ instruction.instruction_type = "MOV"
    /\ instruction.operands.rd = 15
    /\ registers[15] = FromNat(16)

\* C3: every register holds a value in [0, 2^32).
C3_RegistersAre32Bit == \A r \in Registers : Is32Bit(registers[r])

\* An ADD whose sum exceeded 2^32 - 1 (carry out) has written its result.
C3_Witness ==
    /\ Executed
    /\ instruction.instruction_type = "ADD"
    /\ instruction.set_flags
    /\ report = ""
    /\ cpsr.C = 1
    /\ registers[instruction.operands.rd] = Zero

\* C4: a step changes a flag only by executing, with the condition gate
\* passed, an instruction whose set_flags is true or whose kind is CMP.
C4_FlagsOnlyWhenRequested ==
    [][cpsr' # cpsr =>
          /\ pc = "execute"
          /\ ~GateFails
          /\ instruction.set_flags \/ instruction.instruction_type = "CMP"]_vars

\* A flag-setting instruction has set Z, and the flag-setting MOVSNE after
\* it has been skipped: Z is still set.
C4_Witness ==
    /\ Executed
    /\ steps = 2
    /\ cpsr.Z = 1
    /\ instruction.set_flags
    /\ instruction.instruction_type = "MOV"
    /\ report = "skipped"

\* The address of the LDR or STR about to execute: Rn + offset.
AccessAddress ==
    Add(registers[instruction.operands.rn], FromNat(instruction.operands.offset))

\* address <= memory_size - 4 (address is never negative).
AddressAccepted(address) ==
    /\ \A i \in 31 .. (PyIntWidth - 1) : address[i] = 0
    /\ ToNat(address) <= MemorySize - 4

\* The little-endian value of memory bytes a .. a + 3.
WordAt(mem, a) ==
    [i \in Idx |-> IF i < 32 THEN (mem[a + (i \div 8)] \div (2 ^ (i % 8))) % 2
                   ELSE 0]

\* C5: an executed LDR or STR whose address is above memory_size - 4 changes
\* no register, no byte and no flag; one whose address is at most
\* memory_size - 4 is performed: LDR writes Rd, STR writes the 4 bytes.
C5_OutOfBoundsRejected ==
    [][(/\ pc = "execute"
        /\ ~GateFails
        /\ instruction.instruction_type \in {"LDR", "STR"}) =>
          LET rd == instruction.operands.rd
              address == AccessAddress
              a == ToNat(address)
          IN  IF AddressAccepted(address)
              THEN /\ report' = ""
                   /\ cpsr' = cpsr
                   /\ instruction.instruction_type = "LDR" =>
                          /\ registers' = [registers EXCEPT ![rd] = WordAt(memory, a)]
                          /\ memory' = memory
                   /\ instruction.instruction_type = "STR" =>
                          /\ registers' = registers
                          /\ WordAt(memory', a) = registers[rd]
                          /\ \A k \in DOMAIN memory :
                                 (k < a \/ k > a + 3) => memory'[k] = memory[k]
              ELSE /\ report' = "out of bounds"
                   /\ UNCHANGED <<registers, cpsr, memory>>]_vars

\* A STR of a non-zero register to address memory_size - 3 has been rejected.
C5_Witness ==
    /\ Executed
    /\ instruction.instruction_type = "STR"
    /\ report = "out of bounds"
    /\ registers[instruction.operands.rd] # Zero
    /\ AccessAddress = FromNat(MemorySize - 3)
    /\ \A k \in DOMAIN memory : memory[k] = 0

\* C6: an instruction whose condition gate fails (EQ with Z = 0, NE with
\* Z = 1) changes nothing; under every other condition code, and under EQ
\* and NE when the flag agrees, it is not skipped.  SUBNE R0, R0, R5 with
\* Z = 0, R0 = 0x10 and R5 = 3 leaves R0 = 0x0D.
C6_ConditionGate ==
    [][pc = "execute" =>
          /\ GateFails =>
                 /\ report' = "skipped"
                 /\ UNCHANGED <<registers, cpsr, memory>>
          /\ ~GateFails => report' # "skipped"
          /\ (/\ Word = hex_to_bin_word(<<"1", "0", "4", "0", "0", "0", "0", "5">>)
              /\ cpsr.Z = 0
              /\ registers[0] = FromNat(16)
              /\ registers[5] = FromNat(3)) =>
                 registers' = [registers EXCEPT ![0] = FromNat(13)]]_vars

\* SUBNE R0, R0, R5 has been skipped under Z = 1: R0 and R5 are as they were.
C6_Witness ==
    /\ Executed
    /\ Word = hex_to_bin_word(<<"1", "0", "4", "0", "0", "0", "0", "5">>)
    /\ cpsr.Z = 1
    /\ report = "skipped"
    /\ registers[0] = FromNat(16)
    /\ registers[5] = FromNat(3)

\* C7: for an instruction with a shifted register operand, the operand2 the
\* resolver returns is in [0, 2^32), and for LSL it is (Rm << n) mod 2^32.
C7_Operand2Is32Bit ==
    (/\ pc = "execute"
     /\ Has(instruction.operands, "rm")
     /\ Has(instruction.operands, "shift_type")) =>
        LET operand2 == get_operand2(registers, instruction)
            rm_value == registers[instruction.operands.rm]
            n == ActualShiftAmount(registers, instruction.operands)
        IN  /\ Is32Bit(operand2)
            /\ instruction.operands.shift_type = 0 =>
                   operand2 = BitAnd(Shl(rm_value, n), HexFFFFFFFF)

------------------------------------------------------------------------------
(* Properties of the arithmetic instructions *)

\* The low 32 bits of v: v mod 2^32.
Low32(v) == [i \in Idx |-> IF i < 32 THEN v[i] ELSE 0]

\* The 32-bit effective second operand of the instruction about to execute.
Operand2 == Low32(get_operand2(registers, instruction))

\* 1 if b, else 0.
Flag(b) == IF b THEN 1 ELSE 0

\* C12: an executed ADD or ADDEQ sets Rd to (Rn + operand2) mod 2^32 and,
\* when set_flags is true, sets C to 1 exactly when Rn + operand2 exceeds
\* 2^32 - 1 and V to 1 exactly when Rn and operand2 have the same bit 31 and
\* bit 31 of the result differs from that of Rn.
C12_AddResultAndFlags ==
    [][(/\ pc = "execute"
        /\ ~GateFails
        /\ instruction.instruction_type \in {"ADD", "ADDEQ"}) =>
          LET val_rn == registers[instruction.operands.rn]
              sum == Add(val_rn, Operand2)
              result == Low32(sum)
          IN  /\ registers'[instruction.operands.rd] = result
              /\ instruction.set_flags =>
                    /\ cpsr'.C = Flag(Gt(sum, HexFFFFFFFF))
                    /\ cpsr'.V = Flag(/\ val_rn[31] = Operand2[31]
                                      /\ result[31] # val_rn[31])]_vars

\* C13: an executed CMP writes no register and no byte of memory, and sets
\* the four flags to those of a flag-setting SUB of the same Rn and operand2:
\* N and Z from (Rn - operand2) mod 2^32, C = 1 exactly when Rn >= operand2,
\* V = 1 exactly when bit 31 of Rn differs from that of operand2 and from
\* that of the result.
C13_CmpFlagsOfSub ==
    [][(/\ pc = "execute"
        /\ ~GateFails
        /\ instruction.instruction_type = "CMP") =>
          LET val_rn == registers[instruction.operands.rn]
              result == Low32(Sub(val_rn, Operand2))
              sub == ExecSUB(Cpu, [instruction EXCEPT !.instruction_type = "SUB",
                                                      !.set_flags = TRUE])
          IN  /\ registers' = registers
              /\ memory' = memory
              /\ cpsr' = sub.cpsr
              /\ cpsr'.N = result[31]
              /\ cpsr'.Z = Flag(result = Zero)
              /\ cpsr'.C = Flag(Ge(val_rn, Operand2))
              /\ cpsr'.V = Flag(/\ val_rn[31] # Operand2[31]
                                /\ val_rn[31] # result[31])]_vars

\* C14: an executed MOV sets Rd to operand2 and changes no other register and
\* no byte of memory; when set_flags is true it sets N to bit 31 of the
\* result and Z to 1 exactly when the result is 0, and leaves C and V as they
\* were; when set_flags is false it leaves the four flags as they were.
C14_MovResultAndFlags ==
    [][(/\ pc = "execute"
        /\ ~GateFails
        /\ instruction.instruction_type = "MOV") =>
          /\ registers' = [registers EXCEPT ![instruction.operands.rd] = Operand2]
          /\ memory' = memory
          /\ cpsr' = IF instruction.set_flags
                     THEN [N |-> Operand2[31], Z |-> Flag(Operand2 = Zero),
                           C |-> cpsr.C, V |-> cpsr.V]
                     ELSE cpsr]_vars

\* After a comparison that set C and V, MOVS R1, #0x80000000 has set N,
\* cleared Z and left C and V set.
C14_Witness ==
    /\ Executed
    /\ steps = 2
    /\ instruction.instruction_type = "MOV"
    /\ instruction.set_flags
    /\ report = ""
    /\ registers[instruction.operands.rd] = Hex80000000
    /\ cpsr = [N |-> 1, Z |-> 0, C |-> 1, V |-> 1]

------------------------------------------------------------------------------
(* Properties of the kinds without effect, and of memory *)

\* The kinds execute_instruction only prints a message for.
NoEffectKinds ==
    {"B", "BL", "UNKNOWN", "UNKNOWN_DATA_PROCESSING_IMM",
     "UNKNOWN_DATA_PROCESSING_REG"}

\* C15: executing a record of kind B, BL, UNKNOWN, UNKNOWN_DATA_PROCESSING_IMM
\* or UNKNOWN_DATA_PROCESSING_REG ends normally (a B or BL record has the
\* offset its message prints) and changes no register, register 15
\* included, no byte of memory and no flag; the next instruction of the
\* sequence is then taken from that same state.
C15_NoEffectKindsChangeNothing ==
    [][(/\ pc = "execute"
        /\ instruction.instruction_type \in NoEffectKinds) =>
          /\ UNCHANGED <<registers, cpsr, memory>>
          /\ pc' = "decode"
          /\ report' = IF GateFails THEN "skipped"
                       ELSE IF instruction.instruction_type \in {"B", "BL"}
                            THEN "branch" ELSE "unknown"
          /\ instruction.instruction_type \in {"B", "BL"} =>
                 Has(instruction.operands, "offset")]_vars

\* After MOV R15, #16, a BL has been executed: register 15 is still 16 and
\* register 14, the flags and memory are still 0.
C15_Witness ==
    /\ Executed
    /\ steps = 2
    /\ instruction.instruction_type = "BL"
    /\ report = "branch"
    /\ registers = [ZeroRegisters EXCEPT ![15] = FromNat(16)]
    /\ cpsr = [N |-> 0, Z |-> 0, C |-> 0, V |-> 0]
    /\ \A k \in DOMAIN memory : memory[k] = 0

\* C16: an executed STR of Rd at an address a of at most memory_size - 4
\* changes exactly bytes a .. a + 3, to the bytes of Rd least significant
\* first, and leaves the memory at its size; an LDR from the same address
\* into any register Rt, executed next, ends with Rt equal to the value Rd
\* held at the STR.
C16_StoreLoadRoundTrip ==
    [][(/\ pc = "execute"
        /\ ~GateFails
        /\ instruction.instruction_type = "STR"
        /\ AddressAccepted(AccessAddress)) =>
          LET a == ToNat(AccessAddress)
              value == registers[instruction.operands.rd]
              stored == [registers |-> registers', cpsr |-> cpsr',
                         memory |-> memory']
          IN  /\ DOMAIN memory' = 0 .. (MemorySize - 1)
              /\ \A k \in 0 .. 3 : memory'[a + k] = SumBits(value, 8 * k, 8)
              /\ \A k \in 0 .. (MemorySize - 1) :
                     (k < a \/ k > a + 3) => memory'[k] = memory[k]
              /\ \A rt \in Registers :
                     LET ldr == decode(EncodeWord(14, 89, instruction.operands.rn,
                                                  rt, instruction.operands.offset))
                         loaded == execute_instruction(stored, ldr)
                     IN  /\ ldr.instruction_type = "LDR"
                         /\ loaded.report = ""
                         /\ loaded.registers[rt] = value]_vars

\* STR R2, [R9, #0x3FC] then LDR R1, [R9, #0x3FC] have been executed with
\* R2 = 0xFFFFFFFF: the last four bytes of memory are 0xFF and R1, which was
\* 0x80000000, is 0xFFFFFFFF.
C16_Witness ==
    /\ Executed
    /\ steps = 2
    /\ instruction.instruction_type = "LDR"
    /\ report = ""
    /\ AccessAddress = FromNat(MemorySize - 4)
    /\ instruction.operands.rd = 1
    /\ registers[1] = HexFFFFFFFF
    /\ registers[2] = HexFFFFFFFF
    /\ \A k \in 0 .. (MemorySize - 1) :
           memory[k] = IF k >= MemorySize - 4 THEN 255 ELSE 0
====
